---- MODULE Spec2Model ----
(***************************************************************************)
(* Model of the Kiutra cryostat driver (drivers/Kiutra/Kiutra.py).         *)
(*                                                                         *)
(* One client thread calls the driver's methods one after the other.  A    *)
(* call is a sequence of steps; a step ends at each read of instrument     *)
(* state (sample-stage temperature, a controller's stable flag), whose     *)
(* value is chosen by the environment.  Everything the call observes and   *)
(* every command it issues is appended to `trace`, in program order.       *)
(*                                                                         *)
(* Units: temperatures in tenths of a kelvin, fields in tenths of a tesla, *)
(* ramp rates in hundredths (K/min or T/min), so that every threshold of   *)
(* the two ramp-rate tables is an integer.                                 *)
(***************************************************************************)
EXTENDS Integers, Sequences, FiniteSets, TLC

VARIABLES
    host,      \* host_ip_address given to the constructor
    pc,        \* where the client thread is: "idle", a line of a method
               \* ("line_112", "line_137", "poll_128", "poll_146"), "done"
    call,      \* the method called and its arguments
    temp_now,  \* local temp_now of stabilize_at_temperature (line 136)
    trace,     \* reads of instrument state and commands issued by the call
    result     \* the call's return value or exception

vars == <<host, pc, call, temp_now, trace, result>>

\* ------------------------------------------------------------------------
\* Bounds and input sets
\* ------------------------------------------------------------------------

\* Most reads of a stable flag that return False which one call records.
MaxPolls == 2

\* Python's None: an omitted argument, a local not yet assigned, no value.
None == -1

\* Thresholds of the temperature ramp-rate table (tenths of K).
T_0_3 == 3
T_0_5 == 5
T_1_0 == 10
T_4_0 == 40
T_20_0 == 200

\* Thresholds of the magnetic-field ramp-rate table (tenths of K).
M_1 == 10
M_10 == 100

\* Rates of the temperature table (hundredths of K/min).
R_0_05 == 5
R_0_10 == 10
R_0_15 == 15
R_0_20 == 20
R_0_25 == 25

\* Rates of the magnetic-field table (hundredths of T/min).
B_0_1 == 10
B_0_5 == 50

Thresholds == {T_0_3, T_0_5, T_1_0, T_4_0, T_20_0, M_1, M_10}

\* Temperatures the environment reports: each threshold and its neighbours.
Temps == UNION {{b - 1, b, b + 1} : b \in Thresholds}

\* Temperature arguments given by the client.
TempArgs == {T_0_3, T_1_0, T_4_0, T_20_0, T_20_0 + 1}

\* User-supplied temperature ramp rates: below, at and above each default.
UserRates == {R_0_05 - 1, R_0_05, R_0_10, R_0_15, R_0_20, R_0_25, R_0_25 + 5}

\* Field setpoints and user-supplied field ramp rates.
Fields == {0, 10}
FieldRates == {B_0_1, B_0_5 + 10}

Hosts == {"192.168.0.1", "kiutra.local"}

\* ------------------------------------------------------------------------
\* Instance attributes
\* ------------------------------------------------------------------------

\* Attributes the constructor assigns, and the registered parameters.
InstanceAttrs ==
    {"cryostat_control", "sample_control", "temperature_control",
     "adr_control", "heater_control", "magnet_control",
     "magnet_power_supply_1", "magnet_power_supply_2",
     "sample_stage_temperature", "sample_magnetic_field",
     "magnet_power_supply_1_field", "magnet_power_supply_2_field",
     "sample_heater_power"}

\* The handles under the names the methods use (self.TemperatureControl,
\* self.MagnetControl, self.HeaterControl).  The constructor of Kiutra.py
\* binds the handles under lower-snake names only; the binding under these
\* names is that of the driver variant with direct PascalCase handles.
HandleAttrs == {"TemperatureControl", "MagnetControl", "HeaterControl"}

HasAttr(name) == name \in InstanceAttrs \cup HandleAttrs

\* ------------------------------------------------------------------------
\* Values
\* ------------------------------------------------------------------------

Returned(v) == [status |-> "returned", value |-> v]
Raised(e) == [status |-> e, value |-> None]
Pending == [status |-> "pending", value |-> None]

NoCall == [op |-> "none", setpoint |-> None, rate |-> None,
           start |-> None, stop |-> None]

Event(kind, ctrl, mode, setpoint, ramp, start_temperature, kelvin, stable) ==
    [kind |-> kind, ctrl |-> ctrl, mode |-> mode, setpoint |-> setpoint,
     ramp |-> ramp, start_temperature |-> start_temperature,
     kelvin |-> kelvin, stable |-> stable]

\* A read of the sample_stage_temperature parameter.
KelvinRead(t) ==
    Event("kelvin", "TemperatureControl", "", None, None, None, t, FALSE)

\* A read of a controller's stable flag.
StableRead(ctrl, b) == Event("stable", ctrl, "", None, None, None, None, b)

\* MagnetControl.start(setpoint=, ramp=)
MagnetStart(setpoint, ramp) ==
    Event("cmd", "MagnetControl", "start", setpoint, ramp, None, None, FALSE)

\* TemperatureControl.start_proposed_mode(setpoint=, ramp=, mode=, start_temperature=)
StartProposedMode(setpoint, ramp, mode, start_temperature) ==
    Event("cmd", "TemperatureControl", mode, setpoint, ramp,
          start_temperature, None, FALSE)

Outcome(p, tr, res) == [pc |-> p, trace |-> tr, result |-> res]

Finish(tr, res) == Outcome("done", tr, res)

\* ------------------------------------------------------------------------
\* Pure functions
\* ------------------------------------------------------------------------

min(a, b) == IF a <= b THEN a ELSE b

\* Variant: the 4 K bound taken as exclusive.
get_temp_ramp_rate_exclusive(temp_1, temp_2) ==
    LET min_temp == min(temp_1, temp_2)
    IN  IF min_temp <= T_0_3 THEN Returned(R_0_05)
        ELSE IF min_temp <= T_0_5 THEN Returned(R_0_10)
        ELSE IF min_temp <= T_1_0 THEN Returned(R_0_15)
        ELSE IF min_temp < T_4_0 THEN Returned(R_0_20)
        ELSE IF min_temp <= T_20_0 THEN Returned(R_0_25)
        ELSE Raised("ValueError")

get_temp_ramp_rate(temp_1, temp_2) ==
    LET min_temp == min(temp_1, temp_2)
    IN  IF min_temp <= T_0_3 THEN Returned(R_0_05)
        ELSE IF min_temp <= T_0_5 THEN Returned(R_0_10)
        ELSE IF min_temp <= T_1_0 THEN Returned(R_0_15)
        ELSE IF min_temp <= T_4_0 THEN Returned(R_0_20)
        ELSE IF min_temp <= T_20_0 THEN Returned(R_0_25)
        ELSE Raised("ValueError")

\* Variant: a user rate equal to the default is accepted.
check_temp_ramp_rate_lenient(user_set_rate, setpoint_temperature, kelvin) ==
    LET default_ramp_rate == get_temp_ramp_rate(kelvin, setpoint_temperature)
    IN  IF default_ramp_rate.status # "returned" THEN default_ramp_rate
        ELSE IF user_set_rate # None
             THEN IF user_set_rate > default_ramp_rate.value
                  THEN Raised("ValueError")
                  ELSE Returned(user_set_rate)
             ELSE default_ramp_rate

\* check_temp_ramp_rate after its read of the temperature.
check_temp_ramp_rate(user_set_rate, setpoint_temperature, kelvin) ==
    LET default_ramp_rate == get_temp_ramp_rate(kelvin, setpoint_temperature)
    IN  IF default_ramp_rate.status # "returned" THEN default_ramp_rate
        ELSE IF user_set_rate # None
             THEN IF user_set_rate >= default_ramp_rate.value
                  THEN Raised("ValueError")
                  ELSE Returned(user_set_rate)
             ELSE default_ramp_rate

\* Variant: 1 K itself still gets the slow rate.
FirstBranch_inclusive(kelvin) == kelvin <= M_1

\* Line 110 of get_magnetic_field_ramp_rate: the first comparison.
FirstBranch(kelvin) == kelvin < M_1

\* Variant: 10 K itself still gets a rate.
SecondBranch_inclusive(kelvin) ==
    IF kelvin <= M_10 THEN Returned(B_0_5) ELSE Raised("ValueError")

\* Lines 112-117: the second comparison, on a fresh read.
SecondBranch(kelvin) ==
    IF kelvin < M_10 THEN Returned(B_0_5) ELSE Raised("ValueError")

\* ------------------------------------------------------------------------
\* Continuations
\* ------------------------------------------------------------------------

\* start_magnetic_field_sweep from line 99 on, with the rate resolved, and
\* what its caller does next.
StartSweep(c, tr, rate) ==
    IF ~HasAttr("MagnetControl") THEN Finish(tr, Raised("AttributeError"))
    ELSE LET tr2 == Append(tr, MagnetStart(c.setpoint, rate))
         IN  IF c.op = "stabilize_at_magnetic_field"
             THEN Outcome("poll_128", tr2, Pending)
             ELSE Finish(tr2, Returned(None))

\* What follows the outcome of get_magnetic_field_ramp_rate.
AfterFieldRate(c, tr, res) ==
    IF c.op = "get_magnetic_field_ramp_rate" \/ res.status # "returned"
    THEN Finish(tr, res)
    ELSE StartSweep(c, tr, res.value)

\* Variant: the "ramp" command sent with start and stop exchanged.
RampAfterStabilize_swapped(c, tr) ==
    LET rate == get_temp_ramp_rate(c.start, c.stop)
    IN  IF rate.status # "returned" THEN Finish(tr, rate)
        ELSE Finish(Append(tr, StartProposedMode(c.start, rate.value, "ramp",
                                                 c.stop)),
                    Returned(None))

\* ramp_temperature from line 156 on.
RampAfterStabilize(c, tr) ==
    LET rate == get_temp_ramp_rate(c.start, c.stop)
    IN  IF rate.status # "returned" THEN Finish(tr, rate)
        ELSE Finish(Append(tr, StartProposedMode(c.stop, rate.value, "ramp",
                                                 c.start)),
                    Returned(None))

Begin(c, o) ==
    /\ pc = "idle"
    /\ call' = c
    /\ pc' = o.pc
    /\ trace' = o.trace
    /\ result' = o.result
    /\ UNCHANGED host

Continue(o) ==
    /\ pc' = o.pc
    /\ trace' = o.trace
    /\ result' = o.result
    /\ UNCHANGED <<host, call>>

\* ------------------------------------------------------------------------
\* Initial state: the instrument as constructed
\* ------------------------------------------------------------------------

Init ==
    /\ host \in Hosts
    /\ pc = "idle"
    /\ call = NoCall
    /\ temp_now = None
    /\ trace = <<>>
    /\ result = Pending

\* ------------------------------------------------------------------------
\* Operations
\* ------------------------------------------------------------------------

get_idn ==
    /\ Begin([NoCall EXCEPT !.op = "get_idn"],
             IF HasAttr("host_ip_address")
             THEN Finish(<<>>, Returned([model |-> "Kiutra", Host |-> host]))
             ELSE Finish(<<>>, Raised("AttributeError")))
    /\ temp_now' = None

Call_get_temp_ramp_rate ==
    \E a \in Temps, b \in Temps :
        /\ Begin([NoCall EXCEPT !.op = "get_temp_ramp_rate",
                                !.start = a, !.stop = b],
                 Finish(<<>>, get_temp_ramp_rate(a, b)))
        /\ temp_now' = None

Call_check_temp_ramp_rate ==
    \E r \in UserRates \cup {None}, s \in TempArgs, t \in Temps :
        /\ Begin([NoCall EXCEPT !.op = "check_temp_ramp_rate",
                                !.rate = r, !.setpoint = s],
                 IF ~HasAttr("TemperatureControl")
                 THEN Finish(<<>>, Raised("AttributeError"))
                 ELSE Finish(<<KelvinRead(t)>>, check_temp_ramp_rate(r, s, t)))
        /\ temp_now' = None

check_temp_control ==
    \E b \in BOOLEAN :
        /\ Begin([NoCall EXCEPT !.op = "check_temp_control"],
                 IF ~HasAttr("TemperatureControl")
                 THEN Finish(<<>>, Raised("AttributeError"))
                 ELSE Finish(<<StableRead("TemperatureControl", b)>>,
                             IF b THEN Returned(None)
                             ELSE Raised("RuntimeError")))
        /\ temp_now' = None

\* Entry of get_magnetic_field_ramp_rate on behalf of call c: the read and
\* the comparison of line 110.
EnterFieldRate(c, t) ==
    IF ~HasAttr("TemperatureControl")
    THEN Finish(<<>>, Raised("AttributeError"))
    ELSE IF FirstBranch(t)
         THEN AfterFieldRate(c, <<KelvinRead(t)>>, Returned(B_0_1))
         ELSE Outcome("line_112", <<KelvinRead(t)>>, Pending)

Call_get_magnetic_field_ramp_rate ==
    \E t \in Temps :
        LET c == [NoCall EXCEPT !.op = "get_magnetic_field_ramp_rate"]
        IN  /\ Begin(c, EnterFieldRate(c, t))
            /\ temp_now' = None

\* start_magnetic_field_sweep and stabilize_at_magnetic_field up to the
\* first read of instrument state (or to the start command when the rate
\* is given).
EnterSweep(c, t) ==
    IF c.rate = None THEN EnterFieldRate(c, t) ELSE StartSweep(c, <<>>, c.rate)

start_magnetic_field_sweep ==
    \E s \in Fields, r \in FieldRates \cup {None}, t \in Temps :
        LET c == [NoCall EXCEPT !.op = "start_magnetic_field_sweep",
                                !.setpoint = s, !.rate = r]
        IN  /\ Begin(c, EnterSweep(c, t))
            /\ temp_now' = None

stabilize_at_magnetic_field ==
    \E s \in Fields, r \in FieldRates \cup {None}, t \in Temps :
        LET c == [NoCall EXCEPT !.op = "stabilize_at_magnetic_field",
                                !.setpoint = s, !.rate = r]
        IN  /\ Begin(c, EnterSweep(c, t))
            /\ temp_now' = None

\* The elif of line 112: a second read of the temperature.
Line112 ==
    /\ pc = "line_112"
    /\ \E t \in Temps :
           Continue(AfterFieldRate(call, Append(trace, KelvinRead(t)),
                                   SecondBranch(t)))
    /\ UNCHANGED temp_now

\* Variant: the loop gives up with an error on its second read of False.
Poll128_timeout(b) ==
    /\ pc = "poll_128"
    /\ LET tr2 == Append(trace, StableRead("MagnetControl", b))
           polls == Len(SelectSeq(trace, LAMBDA e : e.kind = "stable"))
       IN  IF b THEN Continue(Finish(tr2, Returned(None)))
           ELSE IF polls >= 1
                THEN Continue(Finish(tr2, Raised("RuntimeError")))
                ELSE Continue(Outcome("poll_128", tr2, Pending))
    /\ UNCHANGED temp_now

\* while not self.MagnetControl.stable: sleep(1)
Poll128(b) ==
    /\ pc = "poll_128"
    /\ LET tr2 == Append(trace, StableRead("MagnetControl", b))
       IN  IF b THEN Continue(Finish(tr2, Returned(None)))
           ELSE /\ Len(SelectSeq(trace, LAMBDA e : e.kind = "stable")) < MaxPolls
                /\ Continue(Outcome("poll_128", tr2, Pending))
    /\ UNCHANGED temp_now

\* Line 136: temp_now = self.sample_stage_temperature()
EnterStabilize(t) ==
    IF ~HasAttr("TemperatureControl")
    THEN Finish(<<>>, Raised("AttributeError"))
    ELSE Outcome("line_137", <<KelvinRead(t)>>, Pending)

stabilize_at_temperature ==
    \E s \in TempArgs, r \in UserRates \cup {None}, t \in Temps :
        /\ Begin([NoCall EXCEPT !.op = "stabilize_at_temperature",
                                !.setpoint = s, !.rate = r],
                 EnterStabilize(t))
        /\ temp_now' = t

\* ramp_temperature calls stabilize_at_temperature(setpoint_temperature=start).
ramp_temperature ==
    \E a \in TempArgs, b \in TempArgs, t \in Temps :
        /\ Begin([NoCall EXCEPT !.op = "ramp_temperature",
                                !.setpoint = a, !.start = a, !.stop = b],
                 EnterStabilize(t))
        /\ temp_now' = t

\* Variant: the "stabilize" command sent before the rate is checked.
Line137_command_first ==
    /\ pc = "line_137"
    /\ \E t \in Temps :
           LET ramp_rate == check_temp_ramp_rate(call.rate, call.setpoint, t)
               tr2 == Append(Append(trace,
                          StartProposedMode(call.setpoint, call.rate,
                                            "stabilize", temp_now)),
                          KelvinRead(t))
           IN  IF ramp_rate.status # "returned"
               THEN Continue(Finish(tr2, ramp_rate))
               ELSE Continue(Outcome("poll_146", tr2, Pending))
    /\ UNCHANGED temp_now

\* Lines 137-145: check_temp_ramp_rate (with its own read of the
\* temperature), then the "stabilize" command.
Line137 ==
    /\ pc = "line_137"
    /\ \E t \in Temps :
           LET tr2 == Append(trace, KelvinRead(t))
               ramp_rate == check_temp_ramp_rate(call.rate, call.setpoint, t)
           IN  IF ramp_rate.status # "returned"
               THEN Continue(Finish(tr2, ramp_rate))
               ELSE Continue(Outcome("poll_146",
                        Append(tr2, StartProposedMode(call.setpoint,
                                   ramp_rate.value, "stabilize", temp_now)),
                        Pending))
    /\ UNCHANGED temp_now

\* while not self.TemperatureControl.stable: sleep(1)
Poll146(b) ==
    /\ pc = "poll_146"
    /\ LET tr2 == Append(trace, StableRead("TemperatureControl", b))
       IN  IF b
           THEN IF call.op = "ramp_temperature"
                THEN Continue(RampAfterStabilize(call, tr2))
                ELSE Continue(Finish(tr2, Returned(None)))
           ELSE /\ Len(SelectSeq(trace, LAMBDA e : e.kind = "stable")) < MaxPolls
                /\ Continue(Outcome("poll_146", tr2, Pending))
    /\ UNCHANGED temp_now

\* The call is over: its frame is dropped and the client may call again.
Return ==
    /\ pc = "done"
    /\ pc' = "idle"
    /\ call' = NoCall
    /\ temp_now' = None
    /\ trace' = <<>>
    /\ result' = Pending
    /\ UNCHANGED host

Next ==
    \/ Return
    \/ get_idn
    \/ Call_get_temp_ramp_rate
    \/ Call_check_temp_ramp_rate
    \/ check_temp_control
    \/ Call_get_magnetic_field_ramp_rate
    \/ start_magnetic_field_sweep
    \/ stabilize_at_magnetic_field
    \/ Line112
    \/ \E b \in BOOLEAN : Poll128(b)
    \/ stabilize_at_temperature
    \/ ramp_temperature
    \/ Line137
    \/ \E b \in BOOLEAN : Poll146(b)

Spec == Init /\ [][Next]_vars

\* The controller being polled eventually reports stable to the poll loop.
FairSpec == Spec /\ WF_vars(Poll128(TRUE)) /\ WF_vars(Poll146(TRUE))

\* ------------------------------------------------------------------------
\* Properties.  Their numbers are those of the documented behaviour, in the
\* model's units: 0.3 K = 3, 1 K = 10, 10 K = 100, 20 K = 200;
\* 0.05 K/min = 5, 0.5 T/min = 50.
\* ------------------------------------------------------------------------

Positions(kind) == {i \in 1..Len(trace) : trace[i].kind = kind}

\* Every temperature the call has read so far is t.
KelvinConstant(t) == \A i \in Positions("kelvin") : trace[i].kelvin = t

\* The documented table of get_temp_ramp_rate, on the minimum m.
TempTable(m) ==
    IF m <= 3 THEN Returned(5)
    ELSE IF m <= 5 THEN Returned(10)
    ELSE IF m <= 10 THEN Returned(15)
    ELSE IF m <= 40 THEN Returned(20)
    ELSE IF m <= 200 THEN Returned(25)
    ELSE Raised("ValueError")

\* The documented table of get_magnetic_field_ramp_rate.
FieldTable(t) ==
    IF t < 10 THEN Returned(10)
    ELSE IF t < 100 THEN Returned(50)
    ELSE Raised("ValueError")

Polling == pc \in {"poll_128", "poll_146"}

Stabilizing ==
    call.op \in {"stabilize_at_magnetic_field", "stabilize_at_temperature"}

Thm_C4 ==
    (pc = "done" /\ call.op = "get_temp_ramp_rate") =>
        /\ result = TempTable(IF call.start <= call.stop THEN call.start
                              ELSE call.stop)
        /\ trace = <<>>

\* Second argument the smaller one, exactly on a bound.
Witness_C4 ==
    /\ pc = "done"
    /\ call.op = "get_temp_ramp_rate"
    /\ call.stop = 40
    /\ call.start = 201
    /\ result = Returned(20)

Claim_C7 ==
    (pc = "done" /\ call.op = "get_idn") =>
        /\ result.status = "returned"
        /\ result.value = [model |-> "Kiutra", Host |-> host]

====
